---- MODULE Spec2Model ----
(***************************************************************************)
(* The document question-answering server and its ingestion workers.       *)
(*                                                                         *)
(*   src/unnamed/part_000  API server: POST /api/v1/hackrx/run (async),    *)
(*                         GET /api/v1/hackrx/status/:jobId, POST          *)
(*                         /hackrx/run (synchronous), the response cache   *)
(*                         and the in-process Worker on the queue          *)
(*   src/index.js          earlier server: the same POST /hackrx/run       *)
(*   src/worker.js         standalone ingestion Worker on the same queue   *)
(*                                                                         *)
(* Every await of a handler or of a worker processor is a point where the  *)
(* other handlers and workers may run, so each action below is the code    *)
(* between two awaits.  Strings are sequences of characters.               *)
(***************************************************************************)
EXTENDS Integers, Sequences, FiniteSets, TLC

\* ------------------------------------------------------------------ bounds
\* Requests received over the run.
MaxReqs == 2

\* ------------------------------------------------------- program constants
\* attempts: 3 in the options of the async endpoint's queue.add.
Attempts == 3
\* vectorStore.similaritySearch(question, 2)
TopK == 2
\* Chunks the splitter cuts a document of the model into.
ChunksPerDoc == 2

\* ------------------------------------------------------------- input values
\* req.body.documents: a URL; the empty string stands for '' and for a body
\* without the field (both are falsy in `!documents`).
Documents == {<<>>, <<"a">>, <<"b">>}
\* req.body.questions when present: a list of strings ([] is truthy).
QuestionLists == {<< <<"x">>, <<"y">> >>}
\* Request bodies: hasQuestions = FALSE is a body without questions.
Bodies ==
    [documents : Documents, questions : QuestionLists, hasQuestions : {TRUE}]
      \cup [documents : Documents \ {<<>>}, questions : {<<>>}, hasQuestions : {FALSE}]

\* Which Worker registered on 'file-upload-queue' takes a job.
Workers == {"inproc", "standalone"}

VARIABLES
    reqs,     \* the requests received so far, each with its handler's position
    jobs,     \* the queue 'file-upload-queue': job id -> job (ids are 1, 2, ...)
    store,    \* the collection 'langchainjs-testing': point key -> payload
    files,    \* uploads/: saved path -> the document whose bytes it holds
    now,      \* the last value Date.now() returned
    cache     \* the NodeCache: key -> cached response

vars == <<reqs, jobs, store, files, now, cache>>

\* ------------------------------------------------------------------ values
NoResult == [query |-> <<>>, docs |-> {}]

NoResp ==
    [code |-> 0, error |-> "", jobId |-> 0, state |-> "", result |-> "null",
     hasAnswers |-> FALSE, answers |-> <<>>, url |-> <<>>]

\* res.status(code).json({ error })
ErrorResp(code, msg) == [NoResp EXCEPT !.code = code, !.error = msg]

\* `${req.protocol}://${req.get('host')}/api/v1/hackrx/status/${job.id}`:
\* the URL of the status endpoint for the job.
StatusUrl(id) == <<"/api/v1/hackrx/status/", id>>

NewReq(kind, body) ==
    [kind |-> kind, documents |-> body.documents, questions |-> body.questions,
     hasQuestions |-> body.hasQuestions, jobArg |-> 0, pc |-> "done",
     jobId |-> 0, path |-> 0, i |-> 0, result |-> NoResult, answers |-> <<>>,
     stateRead |-> "", failedAt |-> "", work |-> {},
     seen |-> FALSE, key |-> <<>>, resp |-> NoResp]

\* const { documents, questions } = req.body; if (!documents || !questions)
InvalidDocumentsOnly(body) == body.documents = <<>>

Invalid(body) == body.documents = <<>> \/ ~body.hasQuestions

RECURSIVE Join(_)
\* questions.join(',')
Join(qs) ==
    IF qs = <<>> THEN <<>>
    ELSE IF Len(qs) = 1 THEN qs[1]
    ELSE qs[1] \o <<",">> \o Join(Tail(qs))

\* const cacheKey = `${documents}-${questions.join(',')}`
CacheKey(documents, questions) == documents \o <<"-">> \o Join(questions)

\* Whether an identical request has already been answered with its answers.
Answered(body) ==
    \E k \in DOMAIN reqs :
        /\ reqs[k].kind \in {"async", "sync"}
        /\ reqs[k].documents = body.documents
        /\ reqs[k].questions = body.questions
        /\ reqs[k].hasQuestions = body.hasQuestions
        /\ reqs[k].resp.code = 200
        /\ reqs[k].resp.hasAnswers

\* queue.add(name, data, opts): the job as the queue stores it.  attempts = 0
\* stands for options without attempts (no retry).
NewJob(r, source, attempts, savedTo) ==
    [by |-> r, source |-> source, attempts |-> attempts, savedTo |-> savedTo,
     state |-> "waiting", attemptsMade |-> 0, worker |-> "", step |-> "",
     loaded |-> <<>>, returnvalue |-> "null"]

Init ==
    /\ reqs = <<>>
    /\ jobs = <<>>
    /\ store = <<>>
    /\ files = <<>>
    /\ now = 0
    /\ cache = <<>>

\* The handler has sent its response and returned: its locals are gone.
Finish(r, resp) ==
    [reqs EXCEPT ![r].pc = "done", ![r].resp = resp, ![r].i = 0,
                 ![r].result = NoResult, ![r].answers = <<>>, ![r].stateRead = ""]

\* The handler's catch has sent resp for what failed at `at` (i keeps the
\* question the loop was at).
Fail(r, at, resp) ==
    [Finish(r, resp) EXCEPT ![r].failedAt = at, ![r].i = reqs[r].i]

\* ---------------------------------------------------------------- the queue
\* queue.getJob(id): the job, or 0 for the null of an id the queue never gave.
GetJob(id) == IF id \in DOMAIN jobs THEN id ELSE 0

\* A job's processor threw.  With attempts in its options the queue retries
\* it after the backoff until attemptsMade reaches attempts.
RetryOffByOne(job) == job.attempts > 0 /\ job.attemptsMade <= job.attempts

Retries(job) == job.attempts > 0 /\ job.attemptsMade < job.attempts

\* The queue's handling of a throw of the processor (worker.js catch: throw
\* err, "Rethrow to mark job as failed").
ThrownSwallowed(j, step) ==
    [jobs EXCEPT ![j].state = "completed", ![j].step = step, ![j].loaded = <<>>]

Thrown(j, step) ==
    [jobs EXCEPT ![j].state = IF Retries(jobs[j]) THEN "delayed" ELSE "failed",
                 ![j].step = step, ![j].loaded = <<>>]

\* ------------------------------------- POST /api/v1/hackrx/run (async mode)
\* The 202 is sent when `await queue.add(...)` has returned.
AcceptedAfterCompletion(r) ==
    reqs[r].pc = "added" /\ jobs[reqs[r].jobId].state = "completed"

AcceptedReady(r) == reqs[r].kind = "async" /\ reqs[r].pc = "added"

\* The handler from the arrival of the request to `await queue.add(...)`.
ApiRun(body) ==
    LET r == Len(reqs) + 1
        q == [NewReq("async", body) EXCEPT !.seen = Answered(body)]
        key == CacheKey(body.documents, body.questions)
    IN
    /\ Len(reqs) < MaxReqs
    /\ UNCHANGED <<store, files, now, cache>>
    /\ IF Invalid(body)
       THEN /\ reqs' = Append(reqs, [q EXCEPT
                   !.resp = ErrorResp(400, "Missing documents or questions")])
            /\ UNCHANGED jobs
       ELSE IF key \in DOMAIN cache
       THEN /\ reqs' = Append(reqs, [q EXCEPT !.work = {"cacheGet"},
                                              !.key = key,
                                              !.resp = cache[key]])
            /\ UNCHANGED jobs
       ELSE \/ /\ jobs' = Append(jobs, NewJob(r, "async", Attempts, 0))
               /\ reqs' = Append(reqs, [q EXCEPT !.work = {"cacheGet", "enqueue"},
                                                 !.key = key,
                                                 !.pc = "added",
                                                 !.jobId = Len(jobs) + 1])
            \* queue.add rejects (the broker is unreachable): catch, 500
            \/ /\ UNCHANGED jobs
               /\ reqs' = Append(reqs, [q EXCEPT !.work = {"cacheGet"},
                                                 !.key = key,
                                                 !.failedAt = "enqueue",
                                                 !.resp = ErrorResp(500, "Failed to process request")])

\* res.status(202).json({ success, jobId, status: 'processing', webhookUrl })
ApiRunRespond(r) ==
    /\ AcceptedReady(r)
    /\ reqs' = Finish(r, [NoResp EXCEPT !.code = 202,
                                        !.jobId = reqs[r].jobId,
                                        !.state = "processing",
                                        !.url = StatusUrl(reqs[r].jobId)])
    /\ UNCHANGED <<jobs, store, files, now, cache>>

\* ------------------------------------- GET /api/v1/hackrx/status/:jobId
DefaultStateResp ==
    [NoResp EXCEPT !.code = 200, !.state = "waiting"]

\* if (!job) return res.status(404).json({ success: false, error: 'Job not found' })
NotFoundResp == ErrorResp(404, "Job not found")

\* catch: res.status(500).json({ success: false, error: 'Failed to get job status' })
StatusErrorResp == ErrorResp(500, "Failed to get job status")

\* The handler from the arrival of the request to the answer of queue.getJob.
StatusGetJob(id) ==
    LET q == [NewReq("status", [documents |-> <<>>, questions |-> <<>>,
                                hasQuestions |-> FALSE]) EXCEPT !.jobArg = id]
    IN
    /\ Len(reqs) < MaxReqs
    /\ id \in 1 .. Len(jobs) + 1
    /\ reqs' = Append(reqs, IF GetJob(id) = 0
                            THEN [q EXCEPT !.resp = NotFoundResp]
                            ELSE [q EXCEPT !.pc = "getState", !.jobId = GetJob(id)])
    /\ UNCHANGED <<jobs, store, files, now, cache>>

\* const state = await job.getState(); const result = await job.finished();
\* finished() is the promise of the job's completion in the Bull API, and no
\* method of a bullmq Job: the call either throws a TypeError, which the
\* catch answers with 500, or waits for the job to finish.
StatusGetState(r) ==
    /\ reqs[r].kind = "status" /\ reqs[r].pc = "getState"
    /\ UNCHANGED <<jobs, store, files, now, cache>>
    /\ \/ reqs' = Fail(r, "finished", StatusErrorResp)
       \/ reqs' = [reqs EXCEPT ![r].pc = "finished",
                               ![r].stateRead = jobs[reqs[r].jobId].state]

\* job.finished() settles: it resolves with the return value of a completed
\* job and rejects for a failed one.
StatusFinished(r) ==
    LET job == jobs[reqs[r].jobId] IN
    /\ reqs[r].kind = "status" /\ reqs[r].pc = "finished"
    /\ UNCHANGED <<jobs, store, files, now, cache>>
    /\ \/ /\ job.state = "completed"
          /\ reqs' = Finish(r, [NoResp EXCEPT !.code = 200,
                                              !.jobId = reqs[r].jobId,
                                              !.state = reqs[r].stateRead,
                                              !.result = job.returnvalue])
       \/ /\ job.state = "failed"
          /\ reqs' = Fail(r, "finished", StatusErrorResp)

\* ------------------------------------------- POST /hackrx/run (synchronous)
\* catch (error) { res.status(500).json({ error: 'Failed to process request' }) }
\* reached by a rejected await and by reject(error) of the promise around the
\* writer's handlers.
AbortWithPartial(r, at) ==
    Fail(r, at, [NoResp EXCEPT !.code = 200, !.hasAnswers = TRUE,
                               !.answers = reqs[r].answers])

Abort(r, at) == Fail(r, at, ErrorResp(500, "Failed to process request"))

\* answers.push(answer)
Unshift(answers, answer) == <<answer>> \o answers

Push(answers, answer) == Append(answers, answer)

\* The text model.generateContent returns for the prompt built from the
\* search result and the question: it is named by the question of the prompt
\* and by the query whose result is the prompt's context.
Answer(result, question) == [context |-> result.query, question |-> question]

\* vectorStore.similaritySearch(question, 2): the sets of points a search of
\* the collection may return, TopK of them or all there are.
Hits ==
    {h \in SUBSET DOMAIN store :
        Cardinality(h) = IF Len(store) < TopK THEN Len(store) ELSE TopK}

\* for (const question of questions): the next question's search is issued,
\* or res.json({ answers }) after the last.
Loop(q) ==
    IF q.i > Len(q.questions)
    THEN [q EXCEPT !.pc = "done", !.i = 0, !.answers = <<>>,
                   !.resp = [NoResp EXCEPT !.code = 200, !.hasAnswers = TRUE,
                                           !.answers = q.answers]]
    ELSE [q EXCEPT !.pc = "search", !.work = @ \cup {"search"}]

\* The handler from the arrival of the request to `await axios(...)`.
HackrxRun(body) ==
    LET q == [NewReq("sync", body) EXCEPT !.seen = Answered(body)] IN
    /\ Len(reqs) < MaxReqs
    /\ reqs' = Append(reqs,
                 IF Invalid(body)
                 THEN [q EXCEPT !.resp = ErrorResp(400, "Missing documents or questions")]
                 ELSE [q EXCEPT !.pc = "download", !.work = {"download"}])
    /\ UNCHANGED <<jobs, store, files, now, cache>>

\* The response of the download arrives: filename = `doc_${Date.now()}.pdf`,
\* the write stream is created and the body piped into it.
Download(r) ==
    /\ reqs[r].kind = "sync" /\ reqs[r].pc = "download"
    /\ UNCHANGED <<jobs, store, files, cache>>
    /\ \/ \E t \in ({now} \ {0}) \cup {now + 1} :
            /\ now' = t
            /\ reqs' = [reqs EXCEPT ![r].pc = "writing", ![r].path = t]
       \/ /\ reqs' = Abort(r, "download")
          /\ UNCHANGED now

\* writer.on('finish'): the file is written; the job is enqueued with the
\* saved path and without options, and the handler waits 5000 ms.
WriterFinish(r) ==
    /\ reqs[r].kind = "sync" /\ reqs[r].pc = "writing"
    /\ files' = (reqs[r].path :> reqs[r].documents) @@ files
    /\ UNCHANGED <<store, now, cache>>
    /\ \/ /\ jobs' = Append(jobs, NewJob(r, "sync", 0, reqs[r].path))
          /\ reqs' = [reqs EXCEPT ![r].pc = "sleep", ![r].jobId = Len(jobs) + 1,
                                  ![r].work = @ \cup {"enqueue"}]
       \/ /\ UNCHANGED jobs
          /\ reqs' = Abort(r, "enqueue")

\* The stream of the download fails after its response arrived (the
\* connection is reset in the body): pipe() neither ends nor fails the writer
\* when its source fails, and nothing listens to response.data, so the writer
\* emits neither 'finish' nor 'error' and the promise around its handlers
\* never settles.  (Where the unhandled 'error' of the stream ends the
\* process, the request is left without a response as well.)
StreamError(r) ==
    /\ reqs[r].kind = "sync" /\ reqs[r].pc = "writing"
    /\ reqs' = [reqs EXCEPT ![r].pc = "stalled"]
    /\ UNCHANGED <<jobs, store, files, now, cache>>

\* writer.on('error', reject)
WriterError(r) ==
    /\ reqs[r].kind = "sync" /\ reqs[r].pc = "writing"
    /\ reqs' = Abort(r, "write")
    /\ UNCHANGED <<jobs, store, files, now, cache>>

\* await new Promise(resolve => setTimeout(resolve, 5000)) is over; the
\* connection to the collection is requested.
Timer(r) ==
    /\ reqs[r].kind = "sync" /\ reqs[r].pc = "sleep"
    /\ reqs' = [reqs EXCEPT ![r].pc = "connect"]
    /\ UNCHANGED <<jobs, store, files, now, cache>>

\* QdrantVectorStore.fromExistingCollection settles; the loop over the
\* questions starts: the first search is issued.
Connect(r) ==
    /\ reqs[r].kind = "sync" /\ reqs[r].pc = "connect"
    /\ UNCHANGED <<jobs, store, files, now, cache>>
    /\ \/ reqs' = [reqs EXCEPT ![r] = Loop([reqs[r] EXCEPT !.i = 1])]
       \/ reqs' = Abort(r, "connect")

\* vectorStore.similaritySearch(question, 2) settles; the prompt is built and
\* model.generateContent is called.
Search(r) ==
    /\ reqs[r].kind = "sync" /\ reqs[r].pc = "search"
    /\ UNCHANGED <<jobs, store, files, now, cache>>
    /\ \/ \E h \in Hits :
            reqs' = [reqs EXCEPT
                       ![r].pc = "generate",
                       ![r].work = @ \cup {"generate"},
                       ![r].result = [query |-> reqs[r].questions[reqs[r].i],
                                      docs |-> {store[k].doc : k \in h}]]
       \/ reqs' = Abort(r, "search")

\* model.generateContent settles: answers.push(answer), then the next
\* question or the response.
Generate(r) ==
    LET q == reqs[r]
        answer == Answer(q.result, q.questions[q.i])
    IN
    /\ q.kind = "sync" /\ q.pc = "generate"
    /\ UNCHANGED <<jobs, store, files, now, cache>>
    /\ \/ reqs' = [reqs EXCEPT ![r] =
                     Loop([q EXCEPT !.answers = Push(q.answers, answer),
                                    !.result = NoResult,
                                    !.i = q.i + 1])]
       \/ reqs' = Abort(r, "generate")

\* --------------------------------------------------------------- the workers
\* A Worker on 'file-upload-queue' takes a waiting job: the job is active and
\* its processor starts.
WorkerTake(j, w) ==
    /\ j \in DOMAIN jobs /\ jobs[j].state = "waiting"
    /\ jobs' = [jobs EXCEPT ![j].state = "active",
                            ![j].attemptsMade = @ + 1,
                            ![j].worker = w,
                            ![j].step = "start",
                            ![j].loaded = <<>>]
    /\ UNCHANGED <<reqs, store, files, now, cache>>

\* The backoff of a job to retry is over.
DelayElapsed(j) ==
    /\ j \in DOMAIN jobs /\ jobs[j].state = "delayed"
    /\ jobs' = [jobs EXCEPT ![j].state = "waiting"]
    /\ UNCHANGED <<reqs, store, files, now, cache>>

\* The in-process Worker of the API server: it parses the payload, connects
\* to the existing collection and returns { status: 'completed', vectorStore }.
InprocConnect(j) ==
    /\ j \in DOMAIN jobs /\ jobs[j].state = "active"
    /\ jobs[j].worker = "inproc" /\ jobs[j].step = "start"
    /\ UNCHANGED <<reqs, store, files, now, cache>>
    /\ \/ jobs' = [jobs EXCEPT ![j].state = "completed", ![j].step = "returned",
                               ![j].returnvalue = "status:completed"]
       \/ jobs' = Thrown(j, "thrown")

\* worker.js: JSON.parse(job.data), fs.existsSync(data.savedTo), loader.load()
\* and splitter.splitDocuments(docs).
StandalonePrepare(j) ==
    /\ j \in DOMAIN jobs /\ jobs[j].state = "active"
    /\ jobs[j].worker = "standalone" /\ jobs[j].step = "start"
    /\ UNCHANGED <<reqs, store, files, now, cache>>
    /\ IF jobs[j].savedTo \notin DOMAIN files
       THEN jobs' = Thrown(j, "thrown")
       ELSE \/ jobs' = [jobs EXCEPT ![j].step = "store",
                                    ![j].loaded = files[jobs[j].savedTo]]
            \/ jobs' = Thrown(j, "thrown")

\* The points QdrantVectorStore.fromDocuments(splitDocs, embeddings, ...) adds
\* for a document: the call passes no ids, so every point gets a new key.
Points(doc) == [c \in 1 .. ChunksPerDoc |-> [doc |-> doc, chunk |-> c]]

\* worker.js: QdrantVectorStore.fromDocuments embeds the chunks and adds them
\* to the collection.
StandaloneStore(j) ==
    /\ j \in DOMAIN jobs /\ jobs[j].state = "active"
    /\ jobs[j].worker = "standalone" /\ jobs[j].step = "store"
    /\ UNCHANGED <<reqs, files, now, cache>>
    /\ \/ /\ store' = store \o Points(jobs[j].loaded)
          /\ jobs' = [jobs EXCEPT ![j].step = "verify", ![j].loaded = <<>>]
       \/ /\ jobs' = Thrown(j, "thrown")
          /\ UNCHANGED store

\* worker.js: the test search, then return { success: true }.
StandaloneVerify(j) ==
    /\ j \in DOMAIN jobs /\ jobs[j].state = "active"
    /\ jobs[j].worker = "standalone" /\ jobs[j].step = "verify"
    /\ UNCHANGED <<reqs, store, files, now, cache>>
    /\ \/ jobs' = [jobs EXCEPT ![j].state = "completed", ![j].step = "returned",
                               ![j].returnvalue = "success:true"]
       \/ jobs' = Thrown(j, "thrown")

\* ------------------------------------------------------------ specification
Next ==
    \/ \E body \in Bodies : ApiRun(body)
    \/ \E r \in DOMAIN reqs : ApiRunRespond(r)
    \/ \E id \in 1 .. MaxReqs + 1 : StatusGetJob(id)
    \/ \E r \in DOMAIN reqs : StatusGetState(r)
    \/ \E r \in DOMAIN reqs : StatusFinished(r)
    \/ \E body \in Bodies : HackrxRun(body)
    \/ \E r \in DOMAIN reqs : Download(r)
    \/ \E r \in DOMAIN reqs : WriterFinish(r)
    \/ \E r \in DOMAIN reqs : StreamError(r)
    \/ \E r \in DOMAIN reqs : WriterError(r)
    \/ \E r \in DOMAIN reqs : Timer(r)
    \/ \E r \in DOMAIN reqs : Connect(r)
    \/ \E r \in DOMAIN reqs : Search(r)
    \/ \E r \in DOMAIN reqs : Generate(r)
    \/ \E j \in DOMAIN jobs, w \in Workers : WorkerTake(j, w)
    \/ \E j \in DOMAIN jobs : DelayElapsed(j)
    \/ \E j \in DOMAIN jobs : InprocConnect(j)
    \/ \E j \in DOMAIN jobs : StandalonePrepare(j)
    \/ \E j \in DOMAIN jobs : StandaloneStore(j)
    \/ \E j \in DOMAIN jobs : StandaloneVerify(j)

Spec == Init /\ [][Next]_vars

\* ------------------------------------ the cache key of the async endpoint
\* Bodies whose strings hold the characters the key is built with: the key
\* is the template string `${documents}-${questions.join(',')}`, a string
\* being the sequence of its characters.
KeyDocuments == {<<"a">>, <<"a", "-", "b">>}
KeyQuestionLists ==
    {<< <<"b">>, <<"c">> >>, << <<"b", ",", "c">> >>,
     << <<"c">> >>, << <<"b", "-", "c">> >>}
KeyBodies ==
    [documents : KeyDocuments, questions : KeyQuestionLists, hasQuestions : {TRUE}]

\* The async endpoint alone, receiving these bodies.
NextKey ==
    \/ \E body \in KeyBodies : ApiRun(body)
    \/ \E r \in DOMAIN reqs : ApiRunRespond(r)

SpecKey == Init /\ [][NextKey]_vars

\* ==================================================================== claims
SyncReqs == {r \in DOMAIN reqs : reqs[r].kind = "sync"}
AsyncReqs == {r \in DOMAIN reqs : reqs[r].kind = "async"}
StatusReqs == {r \in DOMAIN reqs : reqs[r].kind = "status"}

\* The step in which the handler of request r sends its response.
Responds(r) == reqs[r].pc # "done" /\ reqs'[r].pc = "done"

\* C1: in synchronous mode the first similarity search of a request is issued
\* only when the job the request enqueued is in state completed.
C1_FirstSearchAfterCompletion ==
    [][\A r \in SyncReqs :
          (reqs[r].pc = "connect" /\ reqs'[r].pc = "search")
              => jobs[reqs[r].jobId].state = "completed"]_vars

\* C2: a status request for an existing job is answered, whatever the job's
\* state and without waiting for the job, with 200, the job's current state
\* and a null result unless that state is completed.
C2_StatusReportsCurrentState ==
    [][\A r \in StatusReqs :
          \* the handler does not wait for the job to finish
          /\ reqs'[r].pc # "finished"
          /\ Responds(r) =>
                /\ reqs'[r].resp.code = 200
                /\ reqs'[r].resp.state = jobs[reqs[r].jobId].state
                /\ (reqs'[r].resp.result # "null"
                      => jobs[reqs[r].jobId].state = "completed")]_vars

\* C3: a request identical to one already answered with its answers enqueues
\* no job and makes no download, search or generation call.
C3_RepeatServedFromCache ==
    \A r \in DOMAIN reqs :
        reqs[r].seen =>
            reqs[r].work \cap {"download", "enqueue", "search", "generate"} = {}

\* C4: no job is attempted a 4th time; a job whose attempt fails when no
\* attempt is left is failed, and a failed job stays failed and is not
\* attempted again.
C4_RetryCap ==
    /\ [](\A j \in DOMAIN jobs : jobs[j].attemptsMade <= 3)
    /\ [][\A j \in DOMAIN jobs :
            /\ jobs[j].state = "failed" => jobs'[j] = jobs[j]
            /\ (/\ jobs[j].state = "active"
                /\ jobs[j].attemptsMade = 3
                /\ jobs'[j].state \notin {"active", "completed"})
                  => jobs'[j].state = "failed"]_vars

C4_Witness ==
    \E j \in DOMAIN jobs : jobs[j].state = "failed" /\ jobs[j].attemptsMade = 3

\* C5: a status request for a job that is failed is answered with a response
\* that reports the state failed for that job id.
C5_FailedStateReported ==
    [][\A r \in StatusReqs :
          (Responds(r) /\ reqs[r].jobId # 0
                       /\ jobs[reqs[r].jobId].state = "failed")
            => /\ reqs'[r].resp.jobId = reqs[r].jobId
               /\ reqs'[r].resp.state = "failed"]_vars

\* C6: the status request for a job id the queue does not know is answered
\* 404 'Job not found', and its lookup changes neither the queue nor the
\* cache (nor the collection or the files).
C6_UnknownJobNotFound ==
    [][\A r \in DOMAIN reqs' :
          (/\ r \notin DOMAIN reqs
           /\ reqs'[r].kind = "status"
           /\ reqs'[r].jobArg \notin DOMAIN jobs)
            => /\ reqs'[r].pc = "done"
               /\ reqs'[r].resp = ErrorResp(404, "Job not found")
               /\ UNCHANGED <<jobs, cache, store, files>>]_vars

C6_Witness ==
    \E r \in StatusReqs :
        /\ reqs[r].resp.code = 404
        /\ jobs # <<>>
        /\ reqs[r].jobArg \notin DOMAIN jobs

\* C7: a valid async request (the cache holds nothing for it) whose enqueue
\* returned has enqueued exactly one job; its 202 with that job's id and
\* status URL can be sent in whatever state the job is, and is what it is
\* answered with.
C7_AcceptedOnEnqueue ==
    \A r \in AsyncReqs :
        LET mine == {j \in DOMAIN jobs : jobs[j].by = r} IN
        (~Invalid(reqs[r]) /\ reqs[r].failedAt = "") =>
            /\ mine = {reqs[r].jobId}
            /\ reqs[r].pc # "done" => ENABLED ApiRunRespond(r)
            /\ reqs[r].pc = "done" =>
                  /\ reqs[r].resp.code = 202
                  /\ reqs[r].resp.jobId = reqs[r].jobId
                  /\ reqs[r].resp.url = StatusUrl(reqs[r].jobId)

C7_Witness ==
    \E r \in AsyncReqs :
        /\ reqs[r].resp.code = 202
        /\ jobs[reqs[r].jobId].state = "waiting"

\* C8: a 200 of the synchronous endpoint carries as many answers as there are
\* questions, and answers[i] is the text generated for questions[i] from the
\* search result of questions[i].
C8_AnswersAligned ==
    \A r \in SyncReqs :
        reqs[r].resp.code = 200 =>
            /\ reqs[r].resp.hasAnswers
            /\ Len(reqs[r].resp.answers) = Len(reqs[r].questions)
            /\ \A i \in DOMAIN reqs[r].questions :
                  /\ reqs[r].resp.answers[i].question = reqs[r].questions[i]
                  /\ reqs[r].resp.answers[i].context = reqs[r].questions[i]

C8_Witness ==
    \E r \in SyncReqs :
        /\ reqs[r].resp.code = 200
        /\ Len(reqs[r].resp.answers) = 2
        /\ jobs[reqs[r].jobId].state = "active"

C10_IngestionIdempotent ==
    \A d \in Documents :
        Cardinality({k \in DOMAIN store : store[k].doc = d}) <= ChunksPerDoc

\* C12: a POST to either endpoint whose body lacks documents or lacks
\* questions is answered 400 in the step that receives it, which enqueues no
\* job, downloads and writes no file, neither reads nor writes the cache and
\* calls no external service.
C12_InvalidBodyIs400Only ==
    [][\A r \in DOMAIN reqs' :
          (/\ r \notin DOMAIN reqs
           /\ reqs'[r].kind \in {"async", "sync"}
           /\ (reqs'[r].documents = <<>> \/ ~reqs'[r].hasQuestions))
            => /\ reqs'[r].pc = "done"
               /\ reqs'[r].resp = ErrorResp(400, "Missing documents or questions")
               /\ reqs'[r].work = {}
               /\ reqs'[r].jobId = 0
               /\ UNCHANGED <<jobs, store, files, now, cache>>]_vars

C12_Witness ==
    /\ \E r \in AsyncReqs : ~reqs[r].hasQuestions /\ reqs[r].resp.code = 400
    /\ \E r \in SyncReqs : reqs[r].documents = <<>> /\ reqs[r].resp.code = 400

\* C13: a job is in state completed only if the chunks of its document (the
\* document of the request that enqueued it) are in the vector store,
\* whichever worker processed it.
C13_CompletedMeansIndexed ==
    \A j \in DOMAIN jobs :
        jobs[j].state = "completed" =>
            \A c \in 1 .. ChunksPerDoc :
                \E k \in DOMAIN store :
                    store[k] = [doc |-> reqs[jobs[j].by].documents, chunk |-> c]

\* C14: when the processor of a job throws in an attempt numbered below 3,
\* the queue sets the job to delayed for a retry, whichever endpoint
\* enqueued the job.
C14_FailedAttemptRetried ==
    [][\A j \in DOMAIN jobs :
          (/\ jobs[j].state = "active"
           /\ jobs[j].attemptsMade < 3
           /\ jobs'[j].state \notin {"active", "completed"})
            => jobs'[j].state = "delayed"]_vars

\* C15: a request to the synchronous endpoint that has no response yet always
\* has a step of its handler that can run (a pending await that settles or a
\* writer event that fires), so that it goes on to its one response.
C15_SyncNeverStuck ==
    \A r \in SyncReqs :
        reqs[r].pc # "done" =>
            ENABLED (\/ Download(r) \/ WriterFinish(r) \/ WriterError(r)
                     \/ Timer(r) \/ Connect(r) \/ Search(r) \/ Generate(r))

\* C16: the processor of the standalone worker goes through its steps in
\* order (parse, file check, load and split; then embed and upsert; then the
\* verification search), upserts only in the embed-and-upsert step, returns
\* { success: true } and completes the job only from the verification
\* search, never gets past a missing file, and a throw of any step leaves the
\* attempt failed (delayed for a retry or failed), never completed.
C16_StandaloneStepsInOrder ==
    [][\A j \in DOMAIN jobs :
          (/\ jobs[j].state = "active"
           /\ jobs[j].worker = "standalone"
           /\ jobs'[j] # jobs[j])
            => /\ jobs'[j].state = "completed" =>
                    /\ jobs[j].step = "verify"
                    /\ jobs'[j].step = "returned"
                    /\ jobs'[j].returnvalue = "success:true"
               /\ jobs'[j].state = "active" =>
                    /\ <<jobs[j].step, jobs'[j].step>> \in
                           {<<"start", "store">>, <<"store", "verify">>}
                    /\ jobs'[j].returnvalue = "null"
               /\ (jobs[j].step = "start" /\ jobs[j].savedTo \notin DOMAIN files)
                    => jobs'[j].step = "thrown"
               /\ IF jobs[j].step = "store" /\ jobs'[j].step = "verify"
                  THEN /\ Len(store') = Len(store) + ChunksPerDoc
                       /\ \A c \in 1 .. ChunksPerDoc :
                              store'[Len(store) + c] =
                                  [doc |-> jobs[j].loaded, chunk |-> c]
                  ELSE store' = store
               /\ jobs'[j].step = "thrown" =>
                    /\ jobs'[j].state \in {"delayed", "failed"}
                    /\ jobs'[j].returnvalue = "null"]_vars

C16_Witness ==
    /\ \E j \in DOMAIN jobs :
          /\ jobs[j].worker = "standalone" /\ jobs[j].state = "completed"
          /\ jobs[j].returnvalue = "success:true"
    /\ \E j \in DOMAIN jobs :
          /\ jobs[j].worker = "standalone" /\ jobs[j].step = "thrown"
          /\ jobs[j].state \in {"delayed", "failed"}
    /\ store # <<>>

\* C17: with chunks of document D and of another document in the vector
\* store, a similarity search made for a request for D returns chunks of D
\* only.
C17_SearchWithinDocument ==
    [][\A r \in SyncReqs :
          (/\ reqs[r].pc = "search" /\ reqs'[r].pc = "generate"
           /\ \E k \in DOMAIN store : store[k].doc = reqs[r].documents
           /\ \E k \in DOMAIN store : store[k].doc # reqs[r].documents)
            => reqs'[r].result.docs \subseteq {reqs[r].documents}]_vars

\* C18: the payload of every job holds the saved file path the standalone
\* worker reads, so that the worker's attempt can get past its file check to
\* the upsert when nothing else fails.
C18_PayloadHasSavedPath ==
    \A j \in DOMAIN jobs :
        (/\ jobs[j].state = "active" /\ jobs[j].worker = "standalone"
         /\ jobs[j].step = "start")
          => /\ jobs[j].savedTo # 0
             /\ ENABLED (StandalonePrepare(j) /\ jobs'[j].step = "store")

\* C19: two synchronous requests in flight at the same time have different
\* saved file paths, and the file a job's savedTo names holds the document of
\* the request that enqueued the job.
C19_SavedPathsDistinct ==
    /\ \A r1, r2 \in SyncReqs :
          (/\ r1 # r2
           /\ reqs[r1].pc # "done" /\ reqs[r2].pc # "done"
           /\ reqs[r1].path # 0 /\ reqs[r2].path # 0)
            => reqs[r1].path # reqs[r2].path
    /\ \A j \in DOMAIN jobs :
          jobs[j].source = "sync" =>
              /\ jobs[j].savedTo \in DOMAIN files
              /\ files[jobs[j].savedTo] = reqs[jobs[j].by].documents

\* C20: two requests to the async endpoint have the same cache key only if
\* they have the same documents value and the same sequence of questions.
C20_CacheKeyInjective ==
    \A r1, r2 \in AsyncReqs :
        (reqs[r1].key # <<>> /\ reqs[r1].key = reqs[r2].key)
          => /\ reqs[r1].documents = reqs[r2].documents
             /\ reqs[r1].questions = reqs[r2].questions

====
